---- MODULE Spec2Model ----
(***************************************************************************)
(* Model of pipeline.py (SparNA): the per-sample stage chain driven by     *)
(* main(), and the pure decision logic of choose_reference, genotype,      *)
(* assess_coverage, normalise and assemble.                                *)
(*                                                                         *)
(* Text is modelled as sequences of one-character strings, so that the     *)
(* parsing the code performs (split, startswith, int) is computed.         *)
(***************************************************************************)
EXTENDS Integers, Sequences, FiniteSets, TLC

(***************************************************************************)
(* Bounds of the model.                                                    *)
(***************************************************************************)
\* largest number of fastq pairs of a run
MaxSamples == 2
\* longest blast table (lines) given to choose_reference / genotype
MaxHits == 5
\* last site position of a pileup given to assess_coverage
MaxSite == 4
\* longest k-list and c-list (tokens) given to normalise
MaxList == 2
\* most files of an input directory given to list_fastqs
MaxFiles == 4

(***************************************************************************)
(* Text helpers: Python's str methods on character sequences.              *)
(***************************************************************************)
TAB == "\t"

Digits == <<"0", "1", "2", "3", "4", "5", "6", "7", "8", "9">>

\* code points of the characters the model uses (ASCII order)
Ord(ch) ==
    CASE ch = TAB -> 9
      [] ch = " " -> 32
      [] ch = "#" -> 35
      [] ch = "," -> 44
      [] ch = "." -> 46
      [] ch = "/" -> 47
      [] ch \in {Digits[d] : d \in 1..10} -> 47 + (CHOOSE d \in 1..10 : Digits[d] = ch)
      [] ch = "A" -> 65
      [] ch = "B" -> 66
      [] ch = "C" -> 67
      [] ch = "N" -> 78
      [] ch = "_" -> 95
      [] ch = "a" -> 97
      [] ch = "b" -> 98
      [] ch = "o" -> 111
      [] ch = "q" -> 113
      [] ch = "r" -> 114

\* str.split(sep) for a one-character separator
Split(s, sep) ==
    LET RECURSIVE go(_, _, _)
        go(rest, cur, acc) ==
            IF rest = <<>> THEN Append(acc, cur)
            ELSE IF Head(rest) = sep THEN go(Tail(rest), <<>>, Append(acc, cur))
            ELSE go(Tail(rest), Append(cur, Head(rest)), acc)
    IN go(s, <<>>, <<>>)

\* sep.join(parts)
Join(parts, sep) ==
    LET RECURSIVE go(_)
        go(ps) ==
            IF ps = <<>> THEN <<>>
            ELSE IF Len(ps) = 1 THEN Head(ps)
            ELSE Head(ps) \o <<sep>> \o go(Tail(ps))
    IN go(parts)

\* str.replace(ch, '')
Remove(s, ch) == SelectSeq(s, LAMBDA x : x # ch)

\* str.startswith(ch)
StartsWith(s, ch) == Len(s) >= 1 /\ s[1] = ch

IsDigit(ch) == \E d \in 1..10 : Digits[d] = ch

\* int(s) succeeds exactly on a non-empty run of digits (surrounding
\* whitespace aside, which the modelled texts never carry)
IsInt(s) == Len(s) >= 1 /\ \A j \in 1..Len(s) : IsDigit(s[j])

ParseInt(s) ==
    LET RECURSIVE go(_, _)
        go(rest, acc) ==
            IF rest = <<>> THEN acc
            ELSE go(Tail(rest), 10 * acc + (Ord(Head(rest)) - 48))
    IN go(s, 0)

\* str(n) for n >= 0
Str(n) ==
    LET RECURSIVE go(_)
        go(m) == IF m < 10 THEN <<Digits[m + 1]>>
                 ELSE go(m \div 10) \o <<Digits[(m % 10) + 1]>>
    IN go(n)

\* Python's < on str: lexicographic by code point
StrLess(s, t) ==
    LET RECURSIVE go(_, _)
        go(a, b) ==
            IF b = <<>> THEN FALSE
            ELSE IF a = <<>> THEN TRUE
            ELSE IF Ord(Head(a)) # Ord(Head(b)) THEN Ord(Head(a)) < Ord(Head(b))
            ELSE go(Tail(a), Tail(b))
    IN go(s, t)

\* all sequences over S of length lo..hi
SeqsBetween(S, lo, hi) == UNION {[1..n -> S] : n \in lo..hi}

\* the orders in which a dict with key set K may be iterated
Orders(K) == {o \in [1..Cardinality(K) -> K] : \A k \in K : \E j \in DOMAIN o : o[j] = k}

Reverse(s) == [j \in 1..Len(s) |-> s[Len(s) + 1 - j]]

RECURSIVE SumSeq(_)
SumSeq(s) == IF s = <<>> THEN 0 ELSE Head(s) + SumSeq(Tail(s))

(***************************************************************************)
(* choose_reference (lines 128-146).                                       *)
(***************************************************************************)
\* the value None
None == <<"None">>

\* lines 131-137: occurrences of each accession (second tab-separated field)
\* over the lines of the blast table that do not start with '#'
accession_freqs(blast_out) ==
    LET RECURSIVE go(_, _)
        go(rest, freqs) ==
            IF rest = <<>> THEN freqs
            ELSE LET line == Head(rest) IN
                 IF StartsWith(line, "#") THEN go(Tail(rest), freqs)
                 ELSE LET accession == Split(line, TAB)[2] IN
                      IF accession \in DOMAIN freqs
                      THEN go(Tail(rest), [freqs EXCEPT ![accession] = @ + 1])
                      ELSE go(Tail(rest), freqs @@ (accession :> 1))
    IN go(blast_out, <<>>)

\* a mutated max(): keeps the first key with the smallest value
py_max_smallest(d, order) ==
    LET RECURSIVE go(_, _)
        go(rest, best) ==
            IF rest = <<>> THEN best
            ELSE IF d[Head(rest)] < d[best] THEN go(Tail(rest), Head(rest))
            ELSE go(Tail(rest), best)
    IN go(Tail(order), Head(order))

\* max(d, key=d.get): the first key, in the dict's iteration order, whose
\* value no later key exceeds.  order is that iteration order.
py_max(d, order) ==
    LET RECURSIVE go(_, _)
        go(rest, best) ==
            IF rest = <<>> THEN best
            ELSE IF d[Head(rest)] > d[best] THEN go(Tail(rest), Head(rest))
            ELSE go(Tail(rest), best)
    IN go(Tail(order), Head(order))

\* lines 138-146
choose_reference(blast_out, order) ==
    LET freqs == accession_freqs(blast_out) IN
    IF DOMAIN freqs # {}
    THEN [reference_found |-> TRUE, top_accession |-> py_max(freqs, order)]
    ELSE [reference_found |-> FALSE, top_accession |-> None]

(***************************************************************************)
(* genotype (lines 167-189).                                               *)
(***************************************************************************)
\* lines 170-176: occurrences of each genotype token
genotype_freqs(blast_out) ==
    LET RECURSIVE go(_, _)
        go(rest, freqs) ==
            IF rest = <<>> THEN freqs
            ELSE LET line == Head(rest) IN
                 IF StartsWith(line, "#") THEN go(Tail(rest), freqs)
                 ELSE LET gt == Split(Split(Split(line, TAB)[2], "_")[2], ".")[1] IN
                      IF gt \in DOMAIN freqs
                      THEN go(Tail(rest), [freqs EXCEPT ![gt] = @ + 1])
                      ELSE go(Tail(rest), freqs @@ (gt :> 1))
    IN go(blast_out, <<>>)

\* line 179: round(freq/n_reads*1e4, 2), in hundredths.  n_reads is a
\* multiple of 1/4 (line 95), so it is carried as n_reads4 = 4 * n_reads.
\* round() rounds halves away from zero.
genotype_props_pc(freq, n_reads4) ==
    (2 * (freq * 4000000) + n_reads4) \div (2 * n_reads4)

\* the key of line 181, lambda (k, v): (v, k), compared as Python tuples
KeyLess(a, b) == a.v < b.v \/ (a.v = b.v /\ StrLess(a.k, b.k))

\* sorted(items, key=...): ascending
sorted(items) ==
    LET RECURSIVE insert(_, _)
        insert(x, s) ==
            IF s = <<>> THEN <<x>>
            ELSE IF KeyLess(x, Head(s)) THEN <<x>> \o s
            ELSE <<Head(s)>> \o insert(x, Tail(s))
        RECURSIVE go(_, _)
        go(rest, acc) ==
            IF rest = <<>> THEN acc ELSE go(Tail(rest), insert(Head(rest), acc))
    IN go(items, <<>>)

\* a mutated ranking: the reversed() of line 181 left out
genotype_props_pc_unreversed(items) == sorted(items)

\* line 181: reversed(sorted(genotype_props_pc.items(), key=lambda (k,v): (v,k)))
genotype_props_pc_sorted(items) == Reverse(sorted(items))

\* lines 167-189: the ranked report written to genotypes.txt (one record per
\* line: genotype, per-mille score in hundredths, count) and top_genotype
genotype(n_reads4, blast_out, order) ==
    LET freqs == genotype_freqs(blast_out)
        items == [j \in 1..Len(order) |->
                    [k |-> order[j], v |-> genotype_props_pc(freqs[order[j]], n_reads4)]]
        ranked == genotype_props_pc_sorted(items)
    IN [top_genotype |-> IF DOMAIN freqs # {} THEN py_max(freqs, order) ELSE None,
        report |-> [j \in 1..Len(ranked) |->
                      [genotype |-> ranked[j].k, proportion |-> ranked[j].v,
                       freq |-> freqs[ranked[j].k]]]]

(***************************************************************************)
(* assess_coverage (lines 216-252).                                        *)
(***************************************************************************)
min_depth == 1

\* lines 224-228: sites whose depth is below min_depth, in input order
uncovered_sites(pileup) ==
    LET RECURSIVE go(_, _)
        go(rest, acc) ==
            IF rest = <<>> THEN acc
            ELSE LET fields == Split(Head(rest), TAB)
                     site == ParseInt(fields[2])
                     depth == ParseInt(fields[4])
                 IN IF depth < min_depth THEN go(Tail(rest), Append(acc, site))
                    ELSE go(Tail(rest), acc)
    IN go(pileup, <<>>)

\* lines 234-242: one iteration of the loop over uncovered_sites
uncovered_step(st, uncovered_site) ==
    IF uncovered_site = st.last_uncovered_site + 1
    THEN [st EXCEPT !.uncovered_region = @ + 1,
                    !.largest_uncovered_region =
                        IF st.uncovered_region + 1 > @ THEN st.uncovered_region + 1 ELSE @,
                    !.last_uncovered_site = uncovered_site]
    ELSE [st EXCEPT !.uncovered_regions =
                        IF st.uncovered_region > 0 THEN Append(@, st.uncovered_region) ELSE @,
                    !.uncovered_region = 1,
                    !.last_uncovered_site = uncovered_site]

\* line 219, in tenths
min_coverage == 9

\* a mutated verdict: the threshold itself counts as above
coverage_verdict_inclusive(n_uncovered, reference_len) ==
    IF n_uncovered = 0 THEN "covered"
    ELSE IF 10 * n_uncovered <= (10 - min_coverage) * reference_len THEN "above"
    ELSE "below"

\* lines 246-251: the verdict printed.  The double 1-0.9 is 1/10 - d with
\* 0 < d < 2^-53, and its product with reference_len is rounded to a double;
\* for a reference shorter than 2^50 the comparison of the integer count with
\* that product has the outcome of the comparison in tenths made here.
coverage_verdict(n_uncovered, reference_len) ==
    IF n_uncovered = 0 THEN "covered"
    ELSE IF 10 * n_uncovered < (10 - min_coverage) * reference_len THEN "above"
    ELSE "below"

\* lines 216-251: what the function has computed and printed when it ends
assess_coverage(reference_len, pileup) ==
    LET sites == uncovered_sites(pileup)
        RECURSIVE go(_, _)
        go(rest, st) ==
            IF rest = <<>> THEN st ELSE go(Tail(rest), uncovered_step(st, Head(rest)))
        end == go(sites, [uncovered_region |-> 0, uncovered_regions |-> <<>>,
                          last_uncovered_site |-> 0, largest_uncovered_region |-> 0])
    IN [uncovered_sites |-> sites,
        uncovered_region |-> end.uncovered_region,
        uncovered_regions |-> end.uncovered_regions,
        largest_uncovered_region |-> end.largest_uncovered_region,
        verdict |-> coverage_verdict(Len(sites), reference_len)]

(***************************************************************************)
(* The parameter sweep of normalise (lines 281-283) and assemble           *)
(* (lines 310-313).                                                        *)
(***************************************************************************)
\* a mutated plan: c outermost, k inner
norm_perms_c_outer(norm_k_list, norm_c_list) ==
    LET ks == Split(norm_k_list, ",")
        cs == Split(norm_c_list, ",")
        RECURSIVE outer(_)
        outer(cc) ==
            IF cc = <<>> THEN <<>>
            ELSE [j \in 1..Len(ks) |-> [k |-> ks[j], c |-> Head(cc)]] \o outer(Tail(cc))
    IN outer(cs)

\* lines 281-283: [{'k':k, 'c':c} for k in ks for c in cs]
norm_perms(norm_k_list, norm_c_list) ==
    LET ks == Split(norm_k_list, ",")
        cs == Split(norm_c_list, ",")
        RECURSIVE outer(_)
        outer(kk) ==
            IF kk = <<>> THEN <<>>
            ELSE [j \in 1..Len(cs) |-> [k |-> Head(kk), c |-> cs[j]]] \o outer(Tail(kk))
    IN outer(ks)

\* a mutated plan: the hint asked for whether or not a reference was found
asm_perms_hint_always(perms, asm_untrusted_contigs, reference_found) ==
    LET ucs == IF asm_untrusted_contigs THEN <<1, 0>> ELSE <<0>>
    IN [j \in 1..(Len(perms) * Len(ucs)) |->
          [k |-> perms[((j - 1) \div Len(ucs)) + 1].k,
           c |-> perms[((j - 1) \div Len(ucs)) + 1].c,
           uc |-> ucs[((j - 1) % Len(ucs)) + 1]]]

\* lines 310-313: each normalisation pair with uc in [1, 0] or in [0]
asm_perms(perms, asm_untrusted_contigs, reference_found) ==
    LET ucs == IF reference_found /\ asm_untrusted_contigs THEN <<1, 0>> ELSE <<0>>
        RECURSIVE outer(_)
        outer(pp) ==
            IF pp = <<>> THEN <<>>
            ELSE [j \in 1..Len(ucs) |-> [k |-> Head(pp).k, c |-> Head(pp).c, uc |-> ucs[j]]]
                 \o outer(Tail(pp))
    IN outer(perms)

(***************************************************************************)
(* list_fastqs (lines 47-59).                                              *)
(***************************************************************************)
\* sub occurs in s at position p
IsAt(s, sub, p) == p + Len(sub) - 1 <= Len(s) /\ SubSeq(s, p, p + Len(sub) - 1) = sub

\* sub in s
Contains(s, sub) == \E p \in 1..Len(s) : IsAt(s, sub, p)

\* s.endswith(suffix)
EndsWith(s, suffix) == Len(s) >= Len(suffix) /\ IsAt(s, suffix, Len(s) - Len(suffix) + 1)

\* s.replace(old, new): every occurrence, left to right
Replace(s, old, new) ==
    LET RECURSIVE go(_)
        go(rest) ==
            IF rest = <<>> THEN <<>>
            ELSE IF IsAt(rest, old, 1)
                 THEN new \o go(SubSeq(rest, Len(old) + 1, Len(rest)))
                 ELSE <<Head(rest)>> \o go(Tail(rest))
    IN go(s)

\* s.rfind(ch), counted from 1; 0 when ch is not in s
RFind(s, ch) ==
    IF \E p \in 1..Len(s) : s[p] = ch
    THEN CHOOSE p \in 1..Len(s) : s[p] = ch /\ \A q \in (p + 1)..Len(s) : s[q] # ch
    ELSE 0

\* os.path.splitext(path)[0]: the path up to the last '.' of its last
\* component, unless that component has only dots before it
splitext_root(path) ==
    LET sepIndex == RFind(path, "/")
        dotIndex == RFind(path, ".")
    IN IF dotIndex > sepIndex /\ \E q \in (sepIndex + 1)..(dotIndex - 1) : path[q] # "."
       THEN SubSeq(path, 1, dotIndex - 1)
       ELSE path

\* lines 49-55: the forward and the reverse files, in listing order
fastqs_of(fwd_reads_sig, rev_reads_sig, in_path, listing) ==
    LET RECURSIVE go(_, _)
        go(rest, acc) ==
            IF rest = <<>> THEN acc
            ELSE LET fastq == Head(rest) IN
                 IF EndsWith(fastq, <<".", "f", "a", "s", "t", "q">>)
                 THEN IF Contains(fastq, fwd_reads_sig)
                      THEN go(Tail(rest), [acc EXCEPT !.f = Append(@, in_path \o <<"/">> \o fastq)])
                      ELSE IF Contains(fastq, rev_reads_sig)
                           THEN go(Tail(rest),
                                   [acc EXCEPT !.r = Append(@, in_path \o <<"/">> \o fastq)])
                           ELSE go(Tail(rest), acc)
                 ELSE go(Tail(rest), acc)
    IN go(listing, [f |-> <<>>, r |-> <<>>])

\* line 56: zip(fastqs['f'], fastqs['r'])
zip(a, b) == [j \in 1..(IF Len(a) < Len(b) THEN Len(a) ELSE Len(b)) |-> <<a[j], b[j]>>]

\* line 57: the key of a pair
pair_key(pair, fwd_reads_sig) == splitext_root(Replace(pair[1], fwd_reads_sig, <<>>))

\* lines 47-59: fastqs and the dict fastq_pairs (a later pair replaces an
\* earlier one of the same key)
list_fastqs(fwd_reads_sig, rev_reads_sig, in_path, listing) ==
    LET fastqs == fastqs_of(fwd_reads_sig, rev_reads_sig, in_path, listing)
        zipped == zip(fastqs.f, fastqs.r)
        RECURSIVE go(_, _)
        go(rest, dict) ==
            IF rest = <<>> THEN dict
            ELSE go(Tail(rest), (pair_key(Head(rest), fwd_reads_sig) :> Head(rest)) @@ dict)
    IN [fastqs |-> fastqs, fastq_pairs |-> go(zipped, <<>>)]

\* the usage of line 31: --fwd-reads-sig _F --rev-reads-sig _R, and paths['in']
fwd_sig == <<"_", "F">>
rev_sig == <<"_", "R">>
in_path == <<"/", "i", "n">>

\* a read file: <pre><signature><post>.fastq
FastqName(pre, sig, post) == pre \o sig \o post \o <<".", "f", "a", "s", "t", "q">>

(***************************************************************************)
(* The run: main() (lines 366-394) and the stage functions it calls.       *)
(***************************************************************************)
VARIABLES
    args,             \* the command line: norm_k_list, norm_c_list,
                      \* asm_untrusted_contigs, multiple_samples
    in_dir,           \* os.listdir(paths['in'])
    res_files,        \* index files present in <pipe>/res/hcv_db
    pc,               \* the statement of main() that runs next
    exit,             \* "" while running, else how the process ended
    dirs,             \* directories made under paths['out']
    files,            \* files written under paths['out']
    blast_tsv,        \* content of blast/<i>.blast.tsv, by i
    fastq_pairs,      \* len(fastq_pairs), the dict made by list_fastqs
    i,                \* the loop variable of main()
    n_reads4,         \* 4 * n_reads
    reference_found,  \* main()'s locals of line 383
    top_accession,
    perms,            \* the list normalise returns to assemble
    selected,         \* history: reference_found of each sample so far
    trace,            \* history: the stages started, in order
    cmds,             \* history: the external commands run, with their status
    io,               \* history: the files each stage read or wrote
    call              \* a call of one function on its own (see the last part)

vars == <<args, in_dir, res_files, pc, exit, dirs, files, blast_tsv, fastq_pairs, i,
          n_reads4, reference_found, top_accession, perms, selected, trace, cmds, io,
          call>>

\* line 373, and the directory report() makes (line 356)
job_dirs == <<"merge", "sample", "blast", "ref", "map", "trim", "norm", "asm", "remap", "eval">>

\* accessions of the reference database, named <prefix>_<genotype>.<suffix>
AccA == <<"A", "_", "1", "a", ".", "1">>
AccB == <<"B", "_", "1", "b", ".", "1">>
AccC == <<"C", "_", "1", "a", ".", "2">>

\* lines of a blast table in outfmt 7: a comment, or query TAB accession TAB ...
CommentLine == <<"#", " ", "q">>
HitLine(acc) == <<"q", TAB>> \o acc \o <<TAB, "9">>

\* the tables the similarity search writes in a run
RunBlastOuts ==
    { <<CommentLine>>,
      <<CommentLine, HitLine(AccA)>>,
      <<CommentLine, HitLine(AccA), HitLine(AccB)>> }

\* what `wc -l <path>` may give back to count_reads: status, std_out
CountOuts ==
    { [status |-> 0, std_out |-> <<"8", " ", "/", "o", "/", "r">>],
      [status |-> 0, std_out |-> <<"8", " ", "o", "/", "r">>],
      [status |-> 1, std_out |-> <<>>],
      [status |-> 1, std_out |-> <<"8", " ", "/", "o", "/", "r">>] }

\* numbers of lines the trimmer may write to std_err
TrimErrLines == {2, 26}

\* the k- and c-lists of a run
RunKLists == { <<"2", "1">>, <<"2", "1", ",", "3", "3">> }
RunCLists == { <<"5">> }

Path(dir, prefix, name, perm) == [dir |-> dir, prefix |-> prefix, name |-> name, perm |-> perm]

Io(stage, mode, paths) == {[s |-> i, stage |-> stage, mode |-> mode, path |-> p] : p \in paths}

Cmd(stage, cmd, status) ==
    [s |-> i, stage |-> stage, cmd |-> cmd, status |-> status, perm |-> <<>>]

Started(stage) == Append(trace, [s |-> i, stage |-> stage])

\* sys.exit(msg), or an exception nobody catches
Exits(msg) == pc' = "exited" /\ exit' = msg

Goes(next) == pc' = next /\ exit' = exit

\* the input directory of a run: nf forward and nr reverse files of distinct
\* sample names
SampleNames == <<"a", "b", "c", "d">>

RunListing(nf, nr) ==
    [j \in 1..nf |-> FastqName(<<SampleNames[j]>>, fwd_sig, <<>>)]
    \o [j \in 1..nr |-> FastqName(<<SampleNames[j]>>, rev_sig, <<>>)]

RunListings == {RunListing(nf, nr) : nf \in 0..MaxSamples, nr \in 0..MaxSamples}

\* line 377 for each input directory of a run: len(fastq_pairs)
RunPairs ==
    [listing \in RunListings |->
        Cardinality(DOMAIN list_fastqs(fwd_sig, rev_sig, in_path, listing).fastq_pairs)]

Init ==
    /\ args \in [norm_k_list : RunKLists, norm_c_list : RunCLists,
                 asm_untrusted_contigs : BOOLEAN, multiple_samples : BOOLEAN]
    /\ in_dir \in RunListings
    /\ res_files \in {{}, {"db.fasta.nhr"}, {"db.nhr", "db.fasta.nhr"}}
    /\ pc = "makedirs"
    /\ exit = ""
    /\ dirs = {}
    /\ files = {}
    /\ blast_tsv = <<>>
    /\ fastq_pairs = 0
    /\ i = 0
    /\ n_reads4 = 0
    /\ reference_found = FALSE
    /\ top_accession = None
    /\ perms = <<>>
    /\ selected = <<>>
    /\ trace = <<>>
    /\ cmds = <<>>
    /\ io = {}
    /\ call = [fn |-> "main"]

\* lines 369-375: os.makedirs raises OSError at the first directory it cannot make
main_makedirs ==
    /\ pc = "makedirs"
    /\ \E made \in 0..Len(job_dirs) :
         /\ dirs' = {job_dirs[j] : j \in 1..made}
         /\ IF made = Len(job_dirs) THEN Goes("list_fastqs") ELSE Exits("OSError")
    /\ UNCHANGED <<args, in_dir, res_files, files, blast_tsv, fastq_pairs, i, n_reads4,
                   reference_found, top_accession, perms, selected, trace, cmds, io, call>>

\* line 58, then line 378: an empty dict ends the run, else the loop starts
list_fastqs_exit(n) == IF n = 0 THEN Exits("ERR_READS") ELSE Goes("import_reads")

\* lines 47-59 and 377
main_list_fastqs ==
    /\ pc = "list_fastqs"
    /\ LET n == RunPairs[in_dir] IN
         /\ fastq_pairs' = n
         /\ i' = IF n = 0 THEN i ELSE 1
         /\ list_fastqs_exit(n)
    /\ UNCHANGED <<args, in_dir, res_files, dirs, files, blast_tsv, n_reads4,
                   reference_found, top_accession, perms, selected, trace, cmds, io, call>>

\* lines 61-86 and 379
main_import_reads ==
    /\ pc = "import_reads"
    /\ trace' = Started("import_reads")
    /\ \E status \in {0, 1} :
         LET out == { Path("merge", i, "raw.r1.fastq", <<>>),
                      Path("merge", i, "raw.r2.fastq", <<>>),
                      Path("merge", i, "raw.r12.fastq", <<>>) } IN
         /\ cmds' = Append(cmds, Cmd("import_reads", "cmd_import", status))
         /\ io' = io \cup Io("import_reads", "w", out)
         /\ files' = IF status = 0 THEN files \cup out ELSE files
         /\ IF status = 0 THEN Goes("count_reads") ELSE Exits("ERR_IMPORT")
    /\ UNCHANGED <<args, in_dir, res_files, dirs, blast_tsv, fastq_pairs, i, n_reads4,
                   reference_found, top_accession, perms, selected, call>>

\* line 95: int(std_out.replace(' ','').split('/')[0]) raises ValueError
\* unless the text before the first '/' is a number
count_parses(std_out) == IsInt(Split(Remove(std_out, " "), "/")[1])

\* lines 89-97 and 380: std_out is parsed before the status is looked at
main_count_reads ==
    /\ pc = "count_reads"
    /\ trace' = Started("count_reads")
    /\ io' = io \cup Io("count_reads", "r", {Path("merge", i, "raw.r12.fastq", <<>>)})
    /\ \E out \in CountOuts :
         /\ cmds' = Append(cmds, Cmd("count_reads", "cmd_count", out.status))
         /\ IF ~count_parses(out.std_out)
            THEN Exits("ValueError") /\ n_reads4' = n_reads4
            ELSE /\ n_reads4' = ParseInt(Split(Remove(out.std_out, " "), "/")[1])
                 /\ IF out.status = 0 THEN Goes("sample_reads") ELSE Exits("ERR_COUNT")
    /\ UNCHANGED <<args, in_dir, res_files, dirs, files, blast_tsv, fastq_pairs, i,
                   reference_found, top_accession, perms, selected, call>>

\* lines 99-110 and 381
main_sample_reads ==
    /\ pc = "sample_reads"
    /\ trace' = Started("sample_reads")
    /\ \E status \in {0, 1} :
         LET out == {Path("sample", i, "sample.fasta", <<>>)} IN
         /\ cmds' = Append(cmds, Cmd("sample_reads", "cmd_sample", status))
         /\ io' = io \cup Io("sample_reads", "r", {Path("merge", i, "raw.r12.fastq", <<>>)})
                     \cup Io("sample_reads", "w", out)
         /\ files' = IF status = 0 THEN files \cup out ELSE files
         /\ IF status = 0 THEN Goes("blast_references") ELSE Exits("ERR_SAMPLE")
    /\ UNCHANGED <<args, in_dir, res_files, dirs, blast_tsv, fastq_pairs, i, n_reads4,
                   reference_found, top_accession, perms, selected, call>>

\* a mutated gate: the block of lines 385-388 entered whatever was found
skip_block_never(found) == "extract_reference"

\* line 384: the four reference stages run only when a reference was found
skip_block(found) == IF found THEN "extract_reference" ELSE "trim"

\* a mutated chain: normalise hands back to trim
main_next_backtrack(stage) ==
    CASE stage = "import_reads" -> "count_reads"
      [] stage = "count_reads" -> "sample_reads"
      [] stage = "sample_reads" -> "blast_references"
      [] stage = "blast_references" -> "choose_reference"
      [] stage = "extract_reference" -> "genotype"
      [] stage = "genotype" -> "map_reads"
      [] stage = "map_reads" -> "assess_coverage"
      [] stage = "assess_coverage" -> "trim"
      [] stage = "trim" -> "normalise"
      [] stage = "normalise" -> "trim"
      [] stage = "assemble" -> "evaluate_assemblies"

\* lines 379-392: the statement that follows each call in the loop body
main_next(stage) ==
    CASE stage = "import_reads" -> "count_reads"
      [] stage = "count_reads" -> "sample_reads"
      [] stage = "sample_reads" -> "blast_references"
      [] stage = "blast_references" -> "choose_reference"
      [] stage = "extract_reference" -> "genotype"
      [] stage = "genotype" -> "map_reads"
      [] stage = "map_reads" -> "assess_coverage"
      [] stage = "assess_coverage" -> "trim"
      [] stage = "trim" -> "normalise"
      [] stage = "normalise" -> "assemble"
      [] stage = "assemble" -> "evaluate_assemblies"

\* the commands of a stage run in order up to the first that fails
\* (failed = 0: none fails)
RunUntil(stage, names, failed) ==
    cmds \o [j \in 1..(IF failed = 0 THEN Len(names) ELSE failed) |->
               Cmd(stage, names[j], IF j = failed THEN 1 ELSE 0)]

\* lines 112-126 and 382: the index is built when db.nhr is absent, and its
\* status is dropped; makeblastdb names its files after -in, db.fasta.*;
\* blastn needs them; NcbiblastnCommandline raises ApplicationError on a
\* non-zero status
main_blast_references ==
    /\ pc = "blast_references"
    /\ trace' = Started("blast_references")
    /\ \E index_status \in IF "db.nhr" \in res_files THEN {0} ELSE {0, 1} :
       \E status \in {0, 1}, table \in RunBlastOuts :
         LET build == "db.nhr" \notin res_files
             out == {Path("blast", i, "blast.tsv", <<>>)}
         IN
         /\ res_files' = IF build /\ index_status = 0
                         THEN res_files \cup {"db.fasta.nhr"} ELSE res_files
         /\ status = 0 => "db.fasta.nhr" \in res_files'
         /\ cmds' = (IF build
                     THEN Append(cmds, Cmd("blast_references", "cmd_blastn_index", index_status))
                     ELSE cmds)
                    \o <<Cmd("blast_references", "cmd_blastn", status)>>
         /\ io' = io \cup Io("blast_references", "r", {Path("sample", i, "sample.fasta", <<>>)})
                     \cup Io("blast_references", "w", out)
         /\ IF status = 0
            THEN /\ files' = files \cup out
                 /\ blast_tsv' = (i :> table) @@ blast_tsv
                 /\ Goes(main_next("blast_references"))
            ELSE /\ files' = files
                 /\ blast_tsv' = blast_tsv
                 /\ Exits("ApplicationError")
    /\ UNCHANGED <<args, in_dir, dirs, fastq_pairs, i, n_reads4, reference_found,
                   top_accession, perms, selected, call>>

\* lines 128-146 and 383-384
main_choose_reference ==
    /\ pc = "choose_reference"
    /\ trace' = Started("choose_reference")
    /\ io' = io \cup Io("choose_reference", "r", {Path("blast", i, "blast.tsv", <<>>)})
    /\ \E order \in Orders(DOMAIN accession_freqs(blast_tsv[i])) :
         LET r == choose_reference(blast_tsv[i], order) IN
         /\ reference_found' = r.reference_found
         /\ top_accession' = r.top_accession
         /\ selected' = Append(selected, r.reference_found)
         /\ Goes(skip_block(r.reference_found))
    /\ UNCHANGED <<args, in_dir, res_files, dirs, files, blast_tsv, fastq_pairs, i,
                   n_reads4, perms, cmds, call>>

\* lines 148-165 and 385
main_extract_reference ==
    /\ pc = "extract_reference"
    /\ trace' = Started("extract_reference")
    /\ LET out == {Path("ref", i, "ref.fasta", <<>>)} IN
         /\ io' = io \cup Io("extract_reference", "w", out)
         /\ files' = files \cup out
    /\ Goes(main_next("extract_reference"))
    /\ UNCHANGED <<args, in_dir, res_files, dirs, blast_tsv, fastq_pairs, i, n_reads4,
                   reference_found, top_accession, perms, selected, cmds, call>>

\* lines 167-189 and 386
main_genotype ==
    /\ pc = "genotype"
    /\ trace' = Started("genotype")
    /\ LET out == {Path("blast", i, "genotypes.txt", <<>>)} IN
         /\ io' = io \cup Io("genotype", "r", {Path("blast", i, "blast.tsv", <<>>)})
                     \cup Io("genotype", "w", out)
         /\ files' = files \cup out
    /\ Goes(main_next("genotype"))
    /\ UNCHANGED <<args, in_dir, res_files, dirs, blast_tsv, fastq_pairs, i, n_reads4,
                   reference_found, top_accession, perms, selected, cmds, call>>

\* line 387 calls map_reads(reference_path, paths, i): the third parameter of
\* line 191 is threads, so i keeps its default of 1
map_reads_i(main_i) == 1

\* lines 199-211
cmds_map ==
    <<"segemehl_index", "segemehl_map", "samtools_sort", "samtools_index",
      "mpileup_pile", "mpileup_consensus">>

\* the files each command of cmds_map reads and writes, i being map_reads's i
map_reads_io(j, reference_path, mi) ==
    CASE j = 1 -> [r |-> {reference_path},
                   w |-> {[reference_path EXCEPT !.name = "ref.fasta.idx"]}]
      [] j = 2 -> [r |-> {reference_path, [reference_path EXCEPT !.name = "ref.fasta.idx"],
                          Path("merge", mi, "raw.r12.fastq", <<>>)},
                   w |-> {Path("map", mi, "segemehl_mapped.sam", <<>>)}]
      [] j = 3 -> [r |-> {Path("map", mi, "segemehl_mapped.sam", <<>>)},
                   w |-> {Path("map", mi, "segemehl_mapped.bam", <<>>)}]
      [] j = 4 -> [r |-> {Path("map", mi, "segemehl_mapped.bam", <<>>)},
                   w |-> {Path("map", mi, "segemehl_mapped.bam.bai", <<>>)}]
      [] j = 5 -> [r |-> {reference_path, Path("map", mi, "segemehl_mapped.bam", <<>>)},
                   w |-> {Path("map", mi, "segemehl_mapped.pile", <<>>)}]
      [] j = 6 -> [r |-> {reference_path, Path("/map", mi, "segemehl_mapped.bam", <<>>)},
                   w |-> {Path("map", mi, "consensus.fasta", <<>>)}]

\* lines 191-214 and 387: each command's status is checked in turn
main_map_reads ==
    /\ pc = "map_reads"
    /\ trace' = Started("map_reads")
    /\ \E failed \in 0..Len(cmds_map) :
         LET mi == map_reads_i(i)
             reference_path == Path("ref", i, "ref.fasta", <<>>)
             ran == 1..(IF failed = 0 THEN Len(cmds_map) ELSE failed)
         IN
         /\ cmds' = RunUntil("map_reads", cmds_map, failed)
         /\ io' = io \cup UNION {Io("map_reads", "r", map_reads_io(j, reference_path, mi).r)
                                   \cup Io("map_reads", "w", map_reads_io(j, reference_path, mi).w)
                                 : j \in ran}
         /\ files' = files \cup UNION {map_reads_io(j, reference_path, mi).w : j \in ran \ {failed}}
         /\ IF failed = 0 THEN Goes(main_next("map_reads")) ELSE Exits("ERR_MAP")
    /\ UNCHANGED <<args, in_dir, res_files, dirs, blast_tsv, fastq_pairs, i, n_reads4,
                   reference_found, top_accession, perms, selected, call>>

\* lines 216-252 and 388: open() raises IOError when the pileup is not there
main_assess_coverage ==
    /\ pc = "assess_coverage"
    /\ trace' = Started("assess_coverage")
    /\ LET pile == Path("map", i, "segemehl_mapped.pile", <<>>) IN
         /\ io' = io \cup Io("assess_coverage", "r", {pile})
         /\ IF pile \in files THEN Goes(main_next("assess_coverage")) ELSE Exits("IOError")
    /\ UNCHANGED <<args, in_dir, res_files, dirs, files, blast_tsv, fastq_pairs, i,
                   n_reads4, reference_found, top_accession, perms, selected, cmds, call>>

\* lines 254-277 and 389: the trimmer runs; line 25 of its std_err is taken
\* (IndexError when there are fewer lines); cmd_trim_pp runs; only then is
\* the trimmer's status looked at, and cmd_trim_pp's never is
main_trim ==
    /\ pc = "trim"
    /\ trace' = Started("trim")
    /\ \E status \in {0, 1}, err_lines \in TrimErrLines, pp_status \in {0, 1} :
         LET out == {Path("trim", i, "trim.r1_pe.fastq", <<>>),
                     Path("trim", i, "trim.r1_se.fastq", <<>>),
                     Path("trim", i, "trim.r2_pe.fastq", <<>>),
                     Path("trim", i, "trim.r2_se.fastq", <<>>)}
             out_pp == {Path("trim", i, "trim.se.fastq", <<>>),
                        Path("trim", i, "trim.r12_pe.fastq", <<>>)}
             in == {Path("merge", i, "raw.r1.fastq", <<>>),
                    Path("merge", i, "raw.r2.fastq", <<>>)}
         IN
         IF err_lines <= 25
         THEN /\ pp_status = 0
              /\ cmds' = Append(cmds, Cmd("trim", "cmd_trim", status))
              /\ io' = io \cup Io("trim", "r", in) \cup Io("trim", "w", out)
              /\ files' = IF status = 0 THEN files \cup out ELSE files
              /\ Exits("IndexError")
         ELSE /\ cmds' = cmds \o <<Cmd("trim", "cmd_trim", status),
                                   Cmd("trim", "cmd_trim_pp", pp_status)>>
              /\ io' = io \cup Io("trim", "r", in \cup out) \cup Io("trim", "w", out \cup out_pp)
              /\ files' = files \cup (IF status = 0 THEN out ELSE {})
                                \cup (IF pp_status = 0 THEN out_pp ELSE {})
              /\ IF status = 0 THEN Goes(main_next("trim")) ELSE Exits("ERR_TRIM")
    /\ UNCHANGED <<args, in_dir, res_files, dirs, blast_tsv, fastq_pairs, i, n_reads4,
                   reference_found, top_accession, perms, selected, call>>

\* a mutated sweep: the status of the normaliser is never looked at
main_normalise_unchecked ==
    /\ pc = "normalise"
    /\ trace' = Started("normalise")
    /\ LET plan == norm_perms(args.norm_k_list, args.norm_c_list) IN
       \E failed \in 0..Len(plan) :
         LET ran == 1..Len(plan)
             out(j) == Path("norm", i, "norm", <<plan[j].k, plan[j].c>>)
         IN
         /\ cmds' = cmds \o [j \in ran |->
                               [s |-> i, stage |-> "normalise", cmd |-> "cmd_norm",
                                status |-> IF j = failed THEN 1 ELSE 0,
                                perm |-> <<plan[j].k, plan[j].c>>]]
         /\ io' = io \cup Io("normalise", "r", {Path("trim", i, "trim.r12_pe.fastq", <<>>),
                                                Path("trim", i, "trim.se.fastq", <<>>)})
                     \cup Io("normalise", "w", {out(j) : j \in ran})
         /\ files' = files \cup {out(j) : j \in ran \ {failed}}
         /\ perms' = plan
         /\ Goes(main_next("normalise"))
    /\ UNCHANGED <<args, in_dir, res_files, dirs, blast_tsv, fastq_pairs, i, n_reads4,
                   reference_found, top_accession, selected, call>>

\* lines 279-306 and 390: one normaliser command per pair, each status checked
main_normalise ==
    /\ pc = "normalise"
    /\ trace' = Started("normalise")
    /\ LET plan == norm_perms(args.norm_k_list, args.norm_c_list) IN
       \E failed \in 0..Len(plan) :
         LET ran == 1..(IF failed = 0 THEN Len(plan) ELSE failed)
             out(j) == Path("norm", i, "norm", <<plan[j].k, plan[j].c>>)
         IN
         /\ cmds' = cmds \o [j \in ran |->
                               [s |-> i, stage |-> "normalise", cmd |-> "cmd_norm",
                                status |-> IF j = failed THEN 1 ELSE 0,
                                perm |-> <<plan[j].k, plan[j].c>>]]
         /\ io' = io \cup Io("normalise", "r", {Path("trim", i, "trim.r12_pe.fastq", <<>>),
                                                Path("trim", i, "trim.se.fastq", <<>>)})
                     \cup Io("normalise", "w", {out(j) : j \in ran})
         /\ files' = files \cup {out(j) : j \in ran \ {failed}}
         /\ perms' = IF failed = 0 THEN plan ELSE perms
         /\ IF failed = 0 THEN Goes(main_next("normalise")) ELSE Exits("ERR_NORM")
    /\ UNCHANGED <<args, in_dir, res_files, dirs, blast_tsv, fastq_pairs, i, n_reads4,
                   reference_found, top_accession, selected, call>>

\* lines 308-334 and 390-391: one assembler command per member of asm_perms;
\* the reference of this sample is the hint when uc is 1
main_assemble ==
    /\ pc = "assemble"
    /\ trace' = Started("assemble")
    /\ LET plan == asm_perms(perms, args.asm_untrusted_contigs, reference_found) IN
       \E failed \in 0..Len(plan) :
         LET ran == 1..(IF failed = 0 THEN Len(plan) ELSE failed)
             out(j) == Path("asm", i, "asm", <<plan[j].k, plan[j].c, Str(plan[j].uc)>>)
         IN
         /\ cmds' = cmds \o [j \in ran |->
                               [s |-> i, stage |-> "assemble", cmd |-> "cmd_asm",
                                status |-> IF j = failed THEN 1 ELSE 0,
                                perm |-> <<plan[j].k, plan[j].c, Str(plan[j].uc)>>]]
         /\ io' = io \cup Io("assemble", "r",
                             {Path("norm", i, "norm", <<plan[j].k, plan[j].c>>) : j \in ran}
                             \cup {Path("ref", i, "ref.fasta", <<>>) : j \in {n \in ran : plan[n].uc = 1}})
                     \cup Io("assemble", "w", {out(j) : j \in ran})
         /\ files' = files \cup {out(j) : j \in ran \ {failed}}
         /\ IF failed = 0 THEN Goes(main_next("assemble")) ELSE Exits("ERR_ASM")
    /\ UNCHANGED <<args, in_dir, res_files, dirs, blast_tsv, fastq_pairs, i, n_reads4,
                   reference_found, top_accession, perms, selected, call>>

\* lines 336-350 and 392-393, then the loop of line 378: every directory
\* listed in asm/ is given to the evaluator, whose status is dropped
main_evaluate_assemblies ==
    /\ pc = "evaluate_assemblies"
    /\ trace' = Started("evaluate_assemblies")
    /\ \E status \in {0, 1} :
         LET asm_dirs == {f \in files : f.dir = "asm"}
             out == {Path("eval", i, "report", <<>>)}
         IN
         /\ cmds' = Append(cmds, Cmd("evaluate_assemblies", "eval_cmd", status))
         /\ io' = io \cup Io("evaluate_assemblies", "r",
                             asm_dirs \cup (IF reference_found
                                            THEN {Path("ref", i, "ref.fasta", <<>>)} ELSE {}))
                     \cup Io("evaluate_assemblies", "w", out)
         /\ files' = IF status = 0 THEN files \cup out ELSE files
    /\ IF i < fastq_pairs
       THEN i' = i + 1 /\ Goes("import_reads")
       ELSE i' = i /\ Goes("report")
    /\ UNCHANGED <<args, in_dir, res_files, dirs, blast_tsv, fastq_pairs, n_reads4,
                   reference_found, top_accession, perms, selected, call>>

\* lines 355-364 and 394: after the loop, once, for the last value of i; the
\* copy goes to eval/sumary/ and its status is dropped
main_report ==
    /\ pc = "report"
    /\ trace' = Started("report")
    /\ \E made \in BOOLEAN, status \in {0, 1} :
         IF made
         THEN /\ dirs' = dirs \cup {"eval/summary"}
              /\ cmds' = Append(cmds, Cmd("report", "cmd_report", status))
              /\ io' = io \cup Io("report", "r", {Path("eval", i, "report", <<>>)})
                          \cup Io("report", "w", {Path("eval/sumary", i, "report", <<>>)})
              /\ Exits("0")
         ELSE /\ status = 0
              /\ dirs' = dirs
              /\ cmds' = cmds
              /\ io' = io
              /\ Exits("OSError")
    /\ UNCHANGED <<args, in_dir, res_files, files, blast_tsv, fastq_pairs, i, n_reads4,
                   reference_found, top_accession, perms, selected, call>>

Next ==
    \/ main_makedirs
    \/ main_list_fastqs
    \/ main_import_reads
    \/ main_count_reads
    \/ main_sample_reads
    \/ main_blast_references
    \/ main_choose_reference
    \/ main_extract_reference
    \/ main_genotype
    \/ main_map_reads
    \/ main_assess_coverage
    \/ main_trim
    \/ main_normalise
    \/ main_assemble
    \/ main_evaluate_assemblies
    \/ main_report

Spec == Init /\ [][Next]_vars

\* the interpreter always executes the next statement of main(), and every
\* external command is taken to return
SpecFair == Spec /\ WF_vars(Next)

(***************************************************************************)
(* The functions called on their own, on every input of a bounded set.     *)
(* call holds the arguments and, once done, what the function computed;    *)
(* no run of main() is going on.                                           *)
(***************************************************************************)
runVars == <<args, in_dir, res_files, pc, exit, dirs, files, blast_tsv, fastq_pairs, i,
             n_reads4, reference_found, top_accession, perms, selected, trace, cmds, io>>

NoRun ==
    /\ args = <<>>
    /\ in_dir = <<>>
    /\ res_files = {}
    /\ pc = "none"
    /\ exit = ""
    /\ dirs = {}
    /\ files = {}
    /\ blast_tsv = <<>>
    /\ fastq_pairs = 0
    /\ i = 0
    /\ n_reads4 = 0
    /\ reference_found = FALSE
    /\ top_accession = None
    /\ perms = <<>>
    /\ selected = <<>>
    /\ trace = <<>>
    /\ cmds = <<>>
    /\ io = {}

\* entries of the reference database: prefix, genotype, suffix
RefDb ==
    { [prefix |-> <<"A">>, genotype |-> <<"1", "a">>, suffix |-> <<"1">>],
      [prefix |-> <<"B">>, genotype |-> <<"1", "b">>, suffix |-> <<"1">>],
      [prefix |-> <<"C">>, genotype |-> <<"1", "a">>, suffix |-> <<"2">>] }

\* the accession of an entry, <prefix>_<genotype>.<suffix>
Accession(e) == e.prefix \o <<"_">> \o e.genotype \o <<".">> \o e.suffix

\* the row of a blast table: a comment row, or the hit of an entry
Comment == [prefix |-> <<"#">>, genotype |-> <<>>, suffix |-> <<>>]

BlastLine(row) == IF row = Comment THEN CommentLine ELSE HitLine(Accession(row))

BlastTable(rows) == [j \in 1..Len(rows) |-> BlastLine(rows[j])]

Rows == SeqsBetween(RefDb \cup {Comment}, 0, MaxHits)

\* ---- choose_reference ----
InitReference ==
    /\ NoRun
    /\ call \in {[fn |-> "choose_reference", rows |-> rows, blast_out |-> BlastTable(rows),
                  done |-> FALSE, ret |-> [reference_found |-> FALSE, top_accession |-> None]]
                 : rows \in Rows}

call_choose_reference ==
    /\ call.fn = "choose_reference"
    /\ ~call.done
    /\ \E order \in Orders(DOMAIN accession_freqs(call.blast_out)) :
         call' = [call EXCEPT !.done = TRUE, !.ret = choose_reference(call.blast_out, order)]
    /\ UNCHANGED runVars

SpecReference == InitReference /\ [][call_choose_reference]_vars

\* ---- genotype ----
\* 4 * n_reads: 10 reads, and 8 million reads (where scores of different
\* counts round to the same value)
GenotypeReads4 == {40, 32000000}

InitGenotype ==
    /\ NoRun
    /\ call \in {[fn |-> "genotype", rows |-> rows, blast_out |-> BlastTable(rows),
                  n_reads4 |-> n, done |-> FALSE,
                  ret |-> [top_genotype |-> None, report |-> <<>>]]
                 : rows \in Rows, n \in GenotypeReads4}

call_genotype ==
    /\ call.fn = "genotype"
    /\ ~call.done
    /\ \E order \in Orders(DOMAIN genotype_freqs(call.blast_out)) :
         call' = [call EXCEPT !.done = TRUE,
                              !.ret = genotype(call.n_reads4, call.blast_out, order)]
    /\ UNCHANGED runVars

SpecGenotype == InitGenotype /\ [][call_genotype]_vars

\* ---- assess_coverage ----
\* depths a pileup line may carry
Depths == {0, 1, 5}

\* a pileup line: reference TAB site TAB base TAB depth
PileLine(site, depth) == <<"r", TAB>> \o Str(site) \o <<TAB, "N", TAB>> \o Str(depth)

\* the depth table of the sites in S, in increasing order of site
RECURSIVE DepthTable(_, _)
DepthTable(S, depth) ==
    IF S = {} THEN <<>>
    ELSE LET site == CHOOSE x \in S : \A y \in S : x <= y
         IN <<[site |-> site, depth |-> depth[site]]>> \o DepthTable(S \ {site}, depth)

DepthTables == UNION {{DepthTable(S, d) : d \in [S -> Depths]} : S \in SUBSET (1..MaxSite)}

\* lengths of the reference: the sites of the table, then lengths around ten
\* times the number of uncovered sites
ReferenceLens == {MaxSite + 1, 10, 20, 10 * MaxSite + 1}

InitCoverage ==
    /\ NoRun
    /\ call \in {[fn |-> "assess_coverage", table |-> t, reference_len |-> len,
                  pileup |-> [j \in 1..Len(t) |-> PileLine(t[j].site, t[j].depth)],
                  done |-> FALSE,
                  ret |-> [uncovered_sites |-> <<>>, uncovered_region |-> 0,
                           uncovered_regions |-> <<>>, largest_uncovered_region |-> 0,
                           verdict |-> ""]]
                 : t \in DepthTables, len \in ReferenceLens}

call_assess_coverage ==
    /\ call.fn = "assess_coverage"
    /\ ~call.done
    /\ call' = [call EXCEPT !.done = TRUE, !.ret = assess_coverage(call.reference_len, call.pileup)]
    /\ UNCHANGED runVars

SpecCoverage == InitCoverage /\ [][call_assess_coverage]_vars

\* ---- normalise and assemble: the sweep ----
KTokens == { <<"2", "1">>, <<"3", "3">> }
CTokens == { <<"5">>, <<"2", "0">> }

InitSweep ==
    /\ NoRun
    /\ call \in {[fn |-> "sweep", ks |-> ks, cs |-> cs,
                  norm_k_list |-> Join(ks, ","), norm_c_list |-> Join(cs, ","),
                  asm_untrusted_contigs |-> uc, reference_found |-> rf,
                  done |-> 0, norm_perms |-> <<>>, asm_perms |-> <<>>]
                 : ks \in SeqsBetween(KTokens, 1, MaxList),
                   cs \in SeqsBetween(CTokens, 1, MaxList),
                   uc \in BOOLEAN, rf \in BOOLEAN}

call_normalise ==
    /\ call.fn = "sweep"
    /\ call.done = 0
    /\ call' = [call EXCEPT !.done = 1,
                            !.norm_perms = norm_perms(call.norm_k_list, call.norm_c_list)]
    /\ UNCHANGED runVars

call_assemble ==
    /\ call.fn = "sweep"
    /\ call.done = 1
    /\ call' = [call EXCEPT !.done = 2,
                            !.asm_perms = asm_perms(call.norm_perms, call.asm_untrusted_contigs,
                                                    call.reference_found)]
    /\ UNCHANGED runVars

SpecSweep == InitSweep /\ [][call_normalise \/ call_assemble]_vars

\* ---- list_fastqs ----
\* the files an input directory may hold: forward and reverse read files
\* named <pre><signature><post>.fastq, and a file that is no read file
DirEntries ==
    {[pre |-> e[1], sig |-> sg, post |-> e[2], ext |-> <<".", "f", "a", "s", "t", "q">>]
       : e \in {<< <<"a">>, <<>> >>, << <<"b">>, <<>> >>, << <<>>, <<"a">> >>},
         sg \in {fwd_sig, rev_sig}}
    \cup {[pre |-> <<"a">>, sig |-> fwd_sig, post |-> <<>>, ext |-> <<".", "t", "x", "t">>]}

EntryName(e) == e.pre \o e.sig \o e.post \o e.ext

\* directory listings: distinct files, in any order
Listings ==
    {l \in SeqsBetween(DirEntries, 0, MaxFiles) :
        \A j, k \in 1..Len(l) : j # k => l[j] # l[k]}

InitPairer ==
    /\ NoRun
    /\ call \in {[fn |-> "list_fastqs", entries |-> l,
                  listing |-> [j \in 1..Len(l) |-> EntryName(l[j])],
                  done |-> FALSE, exit |-> "", ret |-> [fastqs |-> <<>>, fastq_pairs |-> <<>>]]
                 : l \in Listings}

\* lines 47-59: an empty dict ends the run with ERR_READS (line 58)
call_list_fastqs ==
    /\ call.fn = "list_fastqs"
    /\ ~call.done
    /\ LET r == list_fastqs(fwd_sig, rev_sig, in_path, call.listing) IN
         call' = [call EXCEPT !.done = TRUE, !.ret = r,
                              !.exit = IF DOMAIN r.fastq_pairs = {} THEN "ERR_READS" ELSE ""]
    /\ UNCHANGED runVars

SpecPairer == InitPairer /\ [][call_list_fastqs]_vars

(***************************************************************************)
(* Properties.                                                             *)
(***************************************************************************)
Ran(s, stage) == \E j \in 1..Len(trace) : trace[j].s = s /\ trace[j].stage = stage

\* the stages of sample s that have started, in the order they started
StagesOf(s) ==
    LET own == SelectSeq(trace, LAMBDA e : e.s = s /\ e.stage # "report")
    IN [j \in 1..Len(own) |-> own[j].stage]

IsPrefix(a, b) == Len(a) <= Len(b) /\ \A j \in 1..Len(a) : a[j] = b[j]

FrontStages ==
    <<"import_reads", "count_reads", "sample_reads", "blast_references", "choose_reference">>
BlockStages == <<"extract_reference", "genotype", "map_reads", "assess_coverage">>
BackStages == <<"trim", "normalise", "assemble", "evaluate_assemblies">>

\* the commands whose status the code looks at, per stage
Checked(c) == c.cmd \notin {"cmd_blastn_index", "cmd_trim_pp", "eval_cmd", "cmd_report"}

FailedCmds == {j \in 1..Len(cmds) : cmds[j].status # 0}

\* C1: fail-fast across samples: once the collaborator of a stage of the
\* chain has returned a non-zero status while sample s was processed, the
\* process is over for the samples after s: no stage of any of them has
\* started.
C1_FailFast ==
    \A j \in FailedCmds :
        cmds[j].cmd \notin {"cmd_blastn_index", "cmd_trim_pp", "cmd_report"} =>
            \A k \in 1..Len(trace) : trace[k].s <= cmds[j].s

\* C2: skip block: the stages a sample runs after reference selection are, in
\* order, the four reference stages followed by trim, normalise, assemble,
\* evaluate when its own selection was Found, and trim, normalise, assemble,
\* evaluate alone when it was NotFound; while the run goes on the next of
\* them is the one about to run.  Nothing but the sample's own selection
\* decides it.
C2_SkipBlock ==
    \A s \in 1..Len(selected) :
        LET after == SubSeq(StagesOf(s), Len(FrontStages) + 1, Len(StagesOf(s)))
            due == IF selected[s] THEN BlockStages \o BackStages ELSE BackStages
        IN /\ IsPrefix(FrontStages, StagesOf(s))
           /\ IsPrefix(after, due)
           /\ (s = i /\ pc \notin {"exited", "report"}) =>
                  /\ Len(after) < Len(due)
                  /\ pc = due[Len(after) + 1]
           /\ (s < i \/ pc = "report") => after = due

C2_Witness ==
    /\ Len(selected) = 2
    /\ selected[1]
    /\ ~selected[2]
    /\ Ran(1, "assess_coverage")
    /\ Ran(1, "evaluate_assemblies")
    /\ Ran(2, "evaluate_assemblies")
    /\ ~Ran(2, "extract_reference")

\* C3: per-sample path isolation: every file a stage reads or writes while
\* sample s is processed carries the prefix s.
C3_PathIsolation == \A a \in io : a.path.prefix = a.s

\* the position of a stage in the chain
Rank(stage) ==
    LET chain == FrontStages \o BlockStages \o BackStages \o <<"report">>
    IN CHOOSE r \in 1..Len(chain) : chain[r] = stage

\* C4: stage ordering: the stages started are in the order of the chain within
\* a sample, none twice, and a stage of the next sample starts only right
\* after evaluate of the sample before it; samples are taken in order from 1.
C4_StageOrder ==
    /\ \A j \in 1..Len(trace) : \A k \in (j + 1)..Len(trace) :
          \/ trace[j].s < trace[k].s
          \/ trace[j].s = trace[k].s /\ Rank(trace[j].stage) < Rank(trace[k].stage)
    /\ trace # <<>> => trace[1].s = 1 /\ trace[1].stage = "import_reads"
    /\ \A k \in 2..Len(trace) :
          trace[k].s # trace[k - 1].s =>
              /\ trace[k].s = trace[k - 1].s + 1
              /\ trace[k - 1].stage = "evaluate_assemblies"
              /\ trace[k].stage = "import_reads"

C4_Witness ==
    /\ Ran(1, "assess_coverage")
    /\ Ran(1, "evaluate_assemblies")
    /\ Ran(2, "trim")
    /\ Ran(2, "evaluate_assemblies")

\* C5: end-to-end completion: in a run over two samples in which every command
\* returned 0 and no output was malformed, one sample Found and the other
\* NotFound, the process does not end in a failure and the report stage has
\* run for each of the two samples when it ends.
C5_EndToEnd ==
    ( /\ fastq_pairs = 2
      /\ Len(selected) = 2
      /\ selected[1] # selected[2]
      /\ FailedCmds = {}
      /\ pc = "exited"
      /\ exit \notin {"ValueError", "IndexError", "OSError"} )
    => /\ exit = "0"
       /\ Ran(1, "report")
       /\ Ran(2, "report")

\* the error kind of each stage that has one
Kind(stage) ==
    CASE stage = "import_reads" -> "ERR_IMPORT"
      [] stage = "count_reads" -> "ERR_COUNT"
      [] stage = "sample_reads" -> "ERR_SAMPLE"
      [] stage = "map_reads" -> "ERR_MAP"
      [] stage = "trim" -> "ERR_TRIM"
      [] stage = "normalise" -> "ERR_NORM"
      [] stage = "assemble" -> "ERR_ASM"

KindStages ==
    {"import_reads", "count_reads", "sample_reads", "map_reads", "trim", "normalise",
     "assemble"}

\* C6: error kinds: a run that ended after the checked command of a stage
\* returned non-zero ended with the kind of that stage; a kind is only ever
\* given for a failure of its own stage; an empty pairing ends with ERR_READS.
C6_ErrorKinds ==
    /\ \A j \in FailedCmds :
          (pc = "exited" /\ Checked(cmds[j]) /\ cmds[j].stage \in KindStages)
              => exit = Kind(cmds[j].stage)
    /\ \A st \in KindStages :
          exit = Kind(st) => \E j \in FailedCmds : cmds[j].stage = st /\ cmds[j].s = i
    /\ (pc = "exited" /\ fastq_pairs = 0 /\ dirs = {job_dirs[j] : j \in 1..Len(job_dirs)})
          => exit = "ERR_READS"

\* the sites of a depth table below min_depth
Uncovered(table) == {table[j].site : j \in {n \in 1..Len(table) : table[n].depth < min_depth}}

\* the maximal runs of consecutive positions among a set of sites, as
\* (first, last) pairs
Runs(U) ==
    {<<a, b>> \in U \X U :
        /\ a <= b
        /\ \A x \in a..b : x \in U
        /\ (a - 1) \notin U
        /\ (b + 1) \notin U}

\* C7: coverage regions: the list of region lengths has one entry per maximal
\* run of uncovered sites, in order, each the length of its run, so that the
\* lengths sum to the number of uncovered sites.
C7_RegionsSum ==
    (call.fn = "assess_coverage" /\ call.done) =>
        LET U == Uncovered(call.table)
            regions == call.ret.uncovered_regions
        IN /\ SumSeq(regions) = Cardinality(U)
           /\ Len(regions) = Cardinality(Runs(U))

\* C8: sweep plan: the normalisation plan is the product of the k-list and the
\* c-list with k outermost; the assembly plan pairs each of its members, in
\* order, with uc = 1 then 0 when a reference was found and untrusted contigs
\* were asked for, and with uc = 0 alone otherwise.
C8_SweepPlan ==
    (call.fn = "sweep" /\ call.done = 2) =>
        LET ks == call.ks
            cs == call.cs
            norm == call.norm_perms
            asm == call.asm_perms
            n == IF call.reference_found /\ call.asm_untrusted_contigs THEN 2 ELSE 1
        IN /\ Len(norm) = Len(ks) * Len(cs)
           /\ \A a \in 1..Len(ks) : \A b \in 1..Len(cs) :
                 norm[(a - 1) * Len(cs) + b] = [k |-> ks[a], c |-> cs[b]]
           /\ Len(asm) = Len(norm) * n
           /\ \A j \in 1..Len(norm) : \A t \in 1..n :
                 asm[(j - 1) * n + t] =
                     [k |-> norm[j].k, c |-> norm[j].c, uc |-> IF t = n THEN 0 ELSE 1]

C8_Witness ==
    /\ call.fn = "sweep"
    /\ call.done = 2
    /\ call.ks = << <<"2", "1">>, <<"3", "3">> >>
    /\ call.cs = << <<"5">>, <<"2", "0">> >>
    /\ call.reference_found
    /\ call.asm_untrusted_contigs
    /\ Len(call.asm_perms) = 8

\* occurrences of the entry e among the rows of a blast table
Votes(rows, e) == Cardinality({j \in 1..Len(rows) : rows[j] = e})

\* C9: reference selection: NotFound exactly when the table has no row other
\* than comments; otherwise Found, with an accession of the table that no
\* other accession outnumbers.
C9_ReferenceVote ==
    (call.fn = "choose_reference" /\ call.done) =>
        LET rows == call.rows
            hits == {e \in RefDb : Votes(rows, e) > 0}
        IN /\ ~call.ret.reference_found <=> hits = {}
           /\ call.ret.reference_found =>
                 \E w \in hits :
                    /\ call.ret.top_accession = Accession(w)
                    /\ \A e \in hits : Votes(rows, e) <= Votes(rows, w)

C9_Witness ==
    /\ call.fn = "choose_reference"
    /\ call.done
    /\ \E a, b \in RefDb :
          /\ a.prefix = <<"A">>
          /\ b.prefix = <<"B">>
          /\ call.rows = <<a, a, b, a, b>>
          /\ call.ret.reference_found
          /\ call.ret.top_accession = Accession(a)

\* hits of genotype g among the rows of a blast table
GenotypeVotes(rows, g) ==
    Cardinality({j \in 1..Len(rows) : rows[j] # Comment /\ rows[j].genotype = g})

\* the report lists each genotype of the table once, with its count and with
\* the score (in hundredths) nearest to count / n_reads * 10000
ReportScores ==
    LET rep == call.ret.report
        gts == {e.genotype : e \in {r \in RefDb : Votes(call.rows, r) > 0}}
    IN /\ Len(rep) = Cardinality(gts)
       /\ {rep[j].genotype : j \in 1..Len(rep)} = gts
       /\ \A j \in 1..Len(rep) :
             LET d == rep[j].proportion * call.n_reads4
                      - GenotypeVotes(call.rows, rep[j].genotype) * 4000000
             IN /\ rep[j].freq = GenotypeVotes(call.rows, rep[j].genotype)
                /\ 2 * d <= call.n_reads4
                /\ 2 * (0 - d) <= call.n_reads4

\* C10 as stated: the report is in descending order of score, and genotypes
\* of equal score are in ascending order of label.
C10_RankingAscendingTies ==
    (call.fn = "genotype" /\ call.done) =>
        LET rep == call.ret.report
        IN /\ ReportScores
           /\ \A j \in 1..Len(rep) : \A k \in (j + 1)..Len(rep) :
                 \/ rep[j].proportion > rep[k].proportion
                 \/ /\ rep[j].proportion = rep[k].proportion
                    /\ StrLess(rep[j].genotype, rep[k].genotype)

\* C10, amended: the report is in descending order of score, and genotypes of
\* equal score are in descending order of label.
C10_RankingDescendingTies ==
    (call.fn = "genotype" /\ call.done) =>
        LET rep == call.ret.report
        IN /\ ReportScores
           /\ \A j \in 1..Len(rep) : \A k \in (j + 1)..Len(rep) :
                 \/ rep[j].proportion > rep[k].proportion
                 \/ /\ rep[j].proportion = rep[k].proportion
                    /\ StrLess(rep[k].genotype, rep[j].genotype)

C10_Witness ==
    /\ call.fn = "genotype"
    /\ call.done
    /\ Len(call.ret.report) = 2
    /\ call.ret.report[1].proportion = call.ret.report[2].proportion
    /\ call.ret.report[1].freq # call.ret.report[2].freq

\* the read files of a listing that carry signature sig
ReadFiles(entries, sig) ==
    {j \in 1..Len(entries) :
        entries[j].sig = sig /\ entries[j].ext = <<".", "f", "a", "s", "t", "q">>}

\* C11: sample pairing: a directory of N forward and N reverse read files
\* gives exactly N samples, keyed by the forward files' names without the
\* signature and the extension; with no forward or no reverse file the run
\* ends with ERR_READS.
C11_Pairing ==
    (call.fn = "list_fastqs" /\ call.done) =>
        LET fwd == ReadFiles(call.entries, fwd_sig)
            rev == ReadFiles(call.entries, rev_sig)
            pairs == call.ret.fastq_pairs
        IN /\ Cardinality(fwd) = Cardinality(rev) =>
                 /\ Cardinality(DOMAIN pairs) = Cardinality(fwd)
                 /\ DOMAIN pairs =
                        {in_path \o <<"/">> \o call.entries[j].pre \o call.entries[j].post
                           : j \in fwd}
           /\ (fwd = {} \/ rev = {}) => call.exit = "ERR_READS"

\* C12: directory pre-creation: once the first stage of the first sample has
\* started, the summary directory of the report stage and the directory of
\* every file a stage has written exist, and a run that failed to create a
\* directory has started no stage.
C12_PreCreation ==
    /\ trace # <<>> =>
         /\ "eval/summary" \in dirs
         /\ \A r \in io : r.mode = "w" => r.path.dir \in dirs
    /\ exit = "OSError" => trace = <<>>

\* C13: coverage verdict: the verdict is one of three; it is "covered" exactly
\* when the table has no uncovered site, otherwise "above" exactly when ten
\* times the number of uncovered sites is below the reference length, and
\* otherwise "below".
C13_Verdict ==
    (call.fn = "assess_coverage" /\ call.done) =>
        LET n == Cardinality(Uncovered(call.table))
            v == call.ret.verdict
        IN /\ v \in {"covered", "above", "below"}
           /\ v = "covered" <=> n = 0
           /\ v = "above" <=> (n # 0 /\ 10 * n < call.reference_len)
           /\ v = "below" <=> (n # 0 /\ 10 * n >= call.reference_len)

\* a table whose uncovered sites are exactly a tenth of the reference: below
C13_Witness ==
    /\ call.fn = "assess_coverage"
    /\ call.done
    /\ 10 * Cardinality(Uncovered(call.table)) = call.reference_len
    /\ call.ret.verdict = "below"

\* the commands run after command j of the log
After(j) == {n \in 1..Len(cmds) : n > j}

\* C14: immediate abort: once an external command has returned a non-zero
\* status, no further external command is run: a failed command is the last
\* of the log.
C14_ImmediateAbort == \A j \in FailedCmds : After(j) = {}

\* the length of the longest maximal run of a set of sites, 0 for no site
LongestRun(U) ==
    IF U = {} THEN 0
    ELSE LET lens == {r[2] - r[1] + 1 : r \in Runs(U)}
         IN CHOOSE m \in lens : \A l \in lens : l <= m

\* C15: largest uncovered region: the largest-region value equals the length
\* of the longest run of uncovered sites with consecutive positions, 0 only
\* when there is none.
C15_LargestRegion ==
    (call.fn = "assess_coverage" /\ call.done) =>
        call.ret.largest_uncovered_region = LongestRun(Uncovered(call.table))

\* the builds of the index of the reference database in the command log
IndexBuilds == {j \in 1..Len(cmds) : cmds[j].cmd = "cmd_blastn_index"}

\* C16: index built once: over all samples of a run the index is built at
\* most once, by the first similarity search, and no similarity search
\* follows a build that failed.
C16_IndexOnce ==
    /\ Cardinality(IndexBuilds) <= 1
    /\ \A j \in IndexBuilds :
         /\ cmds[j].s = 1
         /\ cmds[j].status # 0 => ~\E n \in After(j) : cmds[n].cmd = "cmd_blastn"

\* stage `first` of sample s started before stage `then` of sample s
Before(s, first, then) ==
    \E a, b \in 1..Len(trace) :
        /\ a < b
        /\ trace[a] = [s |-> s, stage |-> first]
        /\ trace[b] = [s |-> s, stage |-> then]

\* the reads of a reference file by the assembler (the hint) or the evaluator
HintReads ==
    {r \in io : /\ r.stage \in {"assemble", "evaluate_assemblies"}
                /\ r.mode = "r"
                /\ r.path.dir = "ref"}

\* C17: reference hint safety: an assembler command with the untrusted-contigs
\* hint, or an evaluator command with a reference, for sample s runs only
\* after extract_reference of sample s, and the file it is given is the one
\* that stage wrote for sample s.
C17_HintSafety ==
    /\ \A r \in HintReads :
         /\ r.path = Path("ref", r.s, "ref.fasta", <<>>)
         /\ r.path \in files
         /\ Before(r.s, "extract_reference", r.stage)
    /\ \A j \in 1..Len(cmds) :
         (cmds[j].cmd = "cmd_asm" /\ cmds[j].perm[3] = Str(1)) =>
             Before(cmds[j].s, "extract_reference", "assemble")

\* a sample is assembled with the hint and then evaluated against its
\* reference
C17_Witness ==
    \E s \in 1..MaxSamples :
        /\ \E j \in 1..Len(cmds) :
             cmds[j].s = s /\ cmds[j].cmd = "cmd_asm" /\ cmds[j].perm[3] = Str(1)
        /\ \E r \in HintReads : r.s = s /\ r.stage = "evaluate_assemblies"

\* the commands `cmd` of sample s in the log
CmdsOf(s, cmd) == {j \in 1..Len(cmds) : cmds[j].s = s /\ cmds[j].cmd = cmd}

\* C18: normalise before assemble: for every sample the normalisation sweep
\* is over, all its members having succeeded, before the first assembler
\* command, and the assembler runs for a pair (k, c) only after the
\* normaliser succeeded for that pair for the same sample.
C18_NormaliseFirst ==
    \A s \in 1..MaxSamples :
        LET norms == CmdsOf(s, "cmd_norm")
            asms == CmdsOf(s, "cmd_asm")
        IN asms # {} =>
             /\ \A n \in norms : cmds[n].status = 0 /\ \A a \in asms : n < a
             /\ Cardinality(norms) = Len(norm_perms(args.norm_k_list, args.norm_c_list))
             /\ \A a \in asms : \E n \in norms :
                    cmds[n].perm = <<cmds[a].perm[1], cmds[a].perm[2]>>

\* the assembler has run for the second pair of a sweep of two pairs
C18_Witness ==
    \E s \in 1..MaxSamples :
        /\ Cardinality(CmdsOf(s, "cmd_norm")) = 2
        /\ \E a \in CmdsOf(s, "cmd_asm") :
             \E n \in CmdsOf(s, "cmd_norm") :
                 /\ cmds[n].perm = <<cmds[a].perm[1], cmds[a].perm[2]>>
                 /\ cmds[n].perm[1] = <<"3", "3">>

\* the contig sets given to the evaluator of sample s
Evaluated(s) ==
    {r.path : r \in {x \in io : /\ x.s = s
                               /\ x.stage = "evaluate_assemblies"
                               /\ x.mode = "r"
                               /\ x.path.dir = "asm"}}

\* the contig sets the assemble sweep of sample s produced
Assembled(s) ==
    {Path("asm", s, "asm", cmds[j].perm) : j \in {n \in CmdsOf(s, "cmd_asm") : cmds[n].status = 0}}

\* C19: evaluation isolation: the evaluator of sample s is given exactly the
\* contig sets the assemble sweep of sample s produced, none of another sample.
C19_EvaluationIsolation ==
    \A s \in 1..MaxSamples : Ran(s, "evaluate_assemblies") => Evaluated(s) = Assembled(s)

\* the error kinds a run may end with
ErrorKinds == {Kind(st) : st \in KindStages} \cup {"ERR_READS"}

\* the two terminal states: aborted with an error kind, or completed after
\* the report stage
Terminal ==
    /\ pc = "exited"
    /\ \/ exit \in ErrorKinds
       \/ exit = "0" /\ \E s \in 1..MaxSamples : Ran(s, "report")

\* the run directories could not be made: over before any stage
SetupFailed == pc = "exited" /\ exit = "OSError" /\ trace = <<>>

\* C20: termination: every run whose directories were made eventually reaches
\* one of the two terminal states, aborted with an error kind or completed
\* after the report stage, and stays there.
C20_Termination == <>[](Terminal \/ SetupFailed)

====
